---- MODULE Spec2Model ----
(***************************************************************************)
(* A model of the owl resolver tree (resolver.go): building the tree of a  *)
(* struct type, caching it per type, cloning it for each New call,         *)
(* applying options, validating, and resolving it depth-first.             *)
(*                                                                         *)
(* Go's heap is modelled explicitly: Resolver nodes, the backing arrays of *)
(* the Path slices ([]string), the backing arrays of the Directives slices *)
(* ([]*Directive) and the Directive objects live in the record `heap`, and *)
(* a slice is a triple (arr, len, cap) over a backing array, so that two   *)
(* slices sharing one array are visible as such.                           *)
(***************************************************************************)
EXTENDS Integers, Sequences, FiniteSets, TLC

VARIABLES heap, builtTrees, calls, started, res, runs, vmem

vars == <<heap, builtTrees, calls, started, res, runs, vmem>>

(***************************************************************************)
(* Bounds of the model.                                                    *)
(***************************************************************************)
\* Total number of New calls started in one behaviour.
MaxCalls == 2

\* The number of nested buildResolver calls the stack of a goroutine holds;
\* one more is a fatal stack overflow.
MaxStackDepth == 6

\* The concurrent callers (goroutines).
Procs == {"p1", "p2"}

(***************************************************************************)
(* The struct types used as inputs (reflect.Type).  A tag is the sequence  *)
(* of its lexical tokens: " " is white space, ";" the separator, "=" the   *)
(* name/argument separator, anything else a word.                          *)
(***************************************************************************)
Fld(name, typ, exported, tag) ==
    [Name |-> name, Type |-> typ, Exported |-> exported, Tag |-> tag]

BasicT == [Kind |-> "basic", Elem |-> "", Fields |-> <<>>]

PtrT(elem) == [Kind |-> "ptr", Elem |-> elem, Fields |-> <<>>]

StructT(fields) == [Kind |-> "struct", Elem |-> "", Fields |-> fields]

SliceT(elem) == [Kind |-> "slice", Elem |-> elem, Fields |-> <<>>]

MapT(elem) == [Kind |-> "map", Elem |-> elem, Fields |-> <<>>]

TypeDef(t) ==
    CASE t = "Config" ->
           StructT(<< Fld("Host", "string", TRUE, <<"required">>),
                      Fld("Port", "int", TRUE, <<"default", "=", "8080">>) >>)
      [] t = "*Config" -> PtrT("Config")
      [] t = "Deep" -> StructT(<< Fld("B", "L1", TRUE, <<>>) >>)
      [] t = "L1" -> StructT(<< Fld("C", "L2", TRUE, <<"a">>) >>)
      [] t = "L2" ->
           StructT(<< Fld("D", "*L3", TRUE, <<"default">>),
                      Fld("g", "int", FALSE, <<>>) >>)
      [] t = "*L3" -> PtrT("L3")
      [] t = "L3" ->
           StructT(<< Fld("E", "int", TRUE,
                          <<" ", "a", " ", ";", " ", "b", ";", ";", "c", "=", "1", " ">>),
                      Fld("F", "*Empty", TRUE, <<"c">>) >>)
      [] t = "Plain" ->
           StructT(<< Fld("X", "int", TRUE, <<>>),
                      Fld("hidden", "int", FALSE, <<"a", ";", "a">>),
                      Fld("P", "*Inner", TRUE, <<>>),
                      Fld("Q", "*Empty", TRUE, <<>>) >>)
      [] t = "Inner" ->
           StructT(<< Fld("U", "int", TRUE, <<>>),
                      Fld("v", "int", FALSE, <<>>),
                      Fld("W", "int", TRUE, <<>>) >>)
      [] t = "*Inner" -> PtrT("Inner")
      [] t = "Empty" -> StructT(<< Fld("h", "int", FALSE, <<>>) >>)
      [] t = "*Empty" -> PtrT("Empty")
      [] t = "BadDup" ->
           StructT(<< Fld("Ok", "int", TRUE, <<"a">>),
                      Fld("In", "BadInner", TRUE, <<>>) >>)
      [] t = "BadInner" ->
           StructT(<< Fld("V", "int", TRUE, <<>>),
                      Fld("W", "int", TRUE, <<"a", ";", "b", "=", "1", ";", " ", "a">>) >>)
      [] t = "BadSyn" ->
           StructT(<< Fld("S", "int", TRUE, <<"a", " ", "b">>) >>)
      [] t = "Shapes" ->
           StructT(<< Fld("S", "[]Inner", TRUE, <<"a">>),
                      Fld("M", "map[string]Inner", TRUE, <<>>),
                      Fld("PP", "**Inner", TRUE, <<>>),
                      Fld("P", "*Inner", TRUE, <<>>),
                      Fld("N", "int", TRUE, <<>>) >>)
      [] t = "*Shapes" -> PtrT("Shapes")
      [] t = "[]Inner" -> SliceT("Inner")
      [] t = "map[string]Inner" -> MapT("Inner")
      [] t = "**Inner" -> PtrT("*Inner")
      [] t = "Node" ->
           StructT(<< Fld("Val", "int", TRUE, <<>>),
                      Fld("Next", "*Node", TRUE, <<>>) >>)
      [] t = "*Node" -> PtrT("Node")
      [] t = "Ring" -> StructT(<< Fld("In", "RingB", TRUE, <<>>) >>)
      [] t = "RingB" -> StructT(<< Fld("Back", "*Ring", TRUE, <<>>) >>)
      [] t = "*Ring" -> PtrT("Ring")
      [] OTHER -> BasicT

\* The values a caller may pass to New as structValue, by their dynamic type.
Inputs == {"int", "*Config", "Deep", "Plain", "BadDup", "BadSyn"}

\* The struct types New can key the cache with.
StructTypes == {"Config", "Deep", "Plain", "BadDup", "BadSyn"}

\* Inputs that exercise the builder alone: records with sequence, mapping
\* and doubly indirected fields, records that refer to themselves (Node
\* through its own field, Ring through the record RingB), and values that
\* are not records.
BuildInputs == {"*Shapes", "Node", "Ring", "**Inner", "[]Inner", "Plain"}

BuildStructTypes == {"Shapes", "Node", "Ring"}

AllStructTypes == StructTypes \cup BuildStructTypes

\* reflect.StructField{}: the field of the root node.
NoField == Fld("", "", TRUE, <<>>)

(***************************************************************************)
(* Errors.  An error is the chain of its wrappings, outermost first; nil   *)
(* is the empty chain.  Every link has the same shape.                     *)
(***************************************************************************)
Nil == <<>>

\* A Directive value, and the zero Directive.
Directive(name, argv) == [Name |-> name, Argv |-> argv]

NoDirective == Directive("", <<>>)

ErrLink(kind, node, path, directive, cause) ==
    [Kind |-> kind, Node |-> node, Path |-> path, Directive |-> directive,
     Cause |-> cause]

\* fmt.Errorf(msg + ": %w", err) and errors without a node or a directive.
PlainErr(msg) == <<ErrLink(msg, 0, <<>>, NoDirective, "")>>

\* The end of a goroutine whose stack cannot grow any more: not an error
\* value, the program dies.
StackOverflow == PlainErr("fatal error: stack overflow")

IsFatal(err) == err = StackOverflow

(***************************************************************************)
(* The heap and Go slices.                                                 *)
(***************************************************************************)
EmptyHeap == [nodes |-> <<>>, sarr |-> <<>>, darr |-> <<>>, dirs |-> <<>>]

\* The sequence <<F(1), ..., F(n)>>.
Tabulate(n, F(_)) == <<>> \o [i \in 1..n |-> F(i)]

\* A nil slice.
NilSlice == [arr |-> 0, len |-> 0, cap |-> 0]

\* The elements of a []string slice.
Strs(h, s) == Tabulate(s.len, LAMBDA i : h.sarr[s.arr][i])

\* The *Directive pointers of a []*Directive slice.
DPtrs(h, s) == Tabulate(s.len, LAMBDA i : h.darr[s.arr][i])

\* The capacity append gives a slice that has to grow to hold `needed`.
GrowCap(oldcap, needed) ==
    IF needed > 2 * oldcap THEN needed ELSE 2 * oldcap

\* append(s, x) on an array heap `arrs`: writes in place when the capacity
\* allows, else copies into a new, larger array.
SliceAppend(arrs, s, x, blank) ==
    IF s.len < s.cap
    THEN [arrs |-> [arrs EXCEPT ![s.arr][s.len + 1] = x],
          s |-> [s EXCEPT !.len = s.len + 1]]
    ELSE LET newcap == GrowCap(s.cap, s.len + 1)
             fresh == Tabulate(newcap, LAMBDA i :
                          IF i <= s.len THEN arrs[s.arr][i]
                          ELSE IF i = s.len + 1 THEN x ELSE blank)
         IN [arrs |-> Append(arrs, fresh),
             s |-> [arr |-> Len(arrs) + 1, len |-> s.len + 1, cap |-> newcap]]

(***************************************************************************)
(* Strings as token sequences: strings.TrimSpace, strings.Split and        *)
(* strings.Join.                                                           *)
(***************************************************************************)
RECURSIVE TrimLeft(_)
TrimLeft(s) ==
    IF s # <<>> /\ Head(s) = " " THEN TrimLeft(Tail(s)) ELSE s

RECURSIVE TrimRight(_)
TrimRight(s) ==
    IF s # <<>> /\ s[Len(s)] = " " THEN TrimRight(SubSeq(s, 1, Len(s) - 1)) ELSE s

TrimSpace(s) == TrimRight(TrimLeft(s))

\* strings.Split(s, sep): the pieces between the separators; one (empty)
\* piece for the empty string.
RECURSIVE Split(_, _)
Split(s, sep) ==
    IF \E i \in 1..Len(s) : s[i] = sep
    THEN LET i == CHOOSE k \in 1..Len(s) :
                      s[k] = sep /\ \A j \in 1..(k - 1) : s[j] # sep
         IN <<SubSeq(s, 1, i - 1)>> \o Split(SubSeq(s, i + 1, Len(s)), sep)
    ELSE <<s>>

\* strings.Join(elems, sep).
RECURSIVE Join(_, _)
Join(elems, sep) ==
    IF elems = <<>> THEN <<>>
    ELSE IF Len(elems) = 1 THEN <<elems[1]>>
    ELSE <<elems[1], sep>> \o Join(Tail(elems), sep)

(***************************************************************************)
(* Directive parsing.                                                      *)
(***************************************************************************)
\* ParseDirective (the directive grammar): a name, optionally followed by
\* "=" and the arguments.  A segment that is not of this form is an error.
ParseDirective(seg) ==
    LET t == TrimSpace(seg)
        wellFormed == /\ t # <<>>
                      /\ t[1] \notin {" ", "=", ";"}
                      /\ Len(t) > 1 => t[2] = "="
                      /\ \A i \in 1..Len(t) : t[i] # " "
    IN IF wellFormed
       THEN [d |-> Directive(t[1], SubSeq(t, 3, Len(t))), err |-> Nil]
       ELSE [d |-> NoDirective,
             err |-> <<ErrLink("invalid directive", 0, t, NoDirective,
                               "ErrInvalidDirective")>>]

\* duplicateDirective(name).
duplicateDirective(name) ==
    <<ErrLink("duplicate directive", 0, <<>>, Directive(name, <<>>),
              "ErrDuplicateDirective")>>

\* A parseDirectives that does not look for repeated names.
IsDuplicate_Never(existed, name) == FALSE

\* Whether the name of a parsed directive was seen before on this field.
IsDuplicate(existed, name) == name \in existed

\* The loop of parseDirectives over the segments from the i-th on: h is the
\* heap, s the directives slice so far, existed the names seen.
RECURSIVE parseLoop(_, _, _, _, _)
parseLoop(h, segs, i, s, existed) ==
    IF i > Len(segs) THEN [h |-> h, s |-> s, err |-> Nil]
    ELSE LET directive == TrimSpace(segs[i])
         IN IF directive = <<>> THEN parseLoop(h, segs, i + 1, s, existed)
            ELSE LET p == ParseDirective(directive)
                 IN IF p.err # Nil THEN [h |-> h, s |-> NilSlice, err |-> p.err]
                    ELSE IF IsDuplicate(existed, p.d.Name)
                    THEN [h |-> h, s |-> NilSlice,
                          err |-> duplicateDirective(p.d.Name)]
                    ELSE LET dp == Len(h.dirs) + 1
                             ap == SliceAppend(h.darr, s, dp, 0)
                             h2 == [h EXCEPT !.dirs = Append(h.dirs, p.d),
                                             !.darr = ap.arrs]
                         IN parseLoop(h2, segs, i + 1, ap.s,
                                      existed \cup {p.d.Name})

parseDirectives(h, tag) ==
    parseLoop(h, Split(TrimSpace(tag), ";"), 1, NilSlice, {})

(***************************************************************************)
(* Contexts: a context is the chain of its WithValue bindings, innermost   *)
(* last; context.Background() is the empty chain.                          *)
(***************************************************************************)
Background == <<>>

WithValue(ctx, key, val) == Append(ctx, <<key, val>>)

\* ctx.Value(key): the innermost binding of key, or the nil interface.
NilIface == "<nil>"

CtxValue(ctx, key) ==
    IF \E i \in 1..Len(ctx) : ctx[i][1] = key
    THEN ctx[CHOOSE i \in 1..Len(ctx) :
                 ctx[i][1] = key /\ \A j \in (i + 1)..Len(ctx) : ctx[j][1] # key][2]
    ELSE NilIface

(***************************************************************************)
(* The tree builder.                                                       *)
(***************************************************************************)
\* The Resolver built for field `field` of type t under `parent` (0 = nil),
\* before its directives, path and children are set.
NewResolver(t, field, parent) ==
    [Type |-> t, Field |-> field, Index |-> -1, Path |-> NilSlice,
     Directives |-> NilSlice, Parent |-> parent, Children |-> <<>>,
     Context |-> Background]

IsRoot(r) == r.Parent = 0

IsLeaf(r) == Len(r.Children) = 0

PathString(h, r) == Join(Strs(h, r.Path), ".")

\* The nodes of the subtree of r.
RECURSIVE Desc(_, _)
Desc(h, r) ==
    {r} \cup UNION {Desc(h, h.nodes[r].Children[i]) : i \in 1..Len(h.nodes[r].Children)}

\* findResolver(root, path): path is the list of the segments still to be
\* matched; 0 is the nil Resolver.  A segment is a string, a field name one
\* token.
RECURSIVE findResolver(_, _, _)
findResolver(h, root, path) ==
    IF Len(path) = 0 THEN root
    ELSE LET kids == h.nodes[root].Children
             Matches(i) == <<h.nodes[kids[i]].Field.Name>> = path[1]
         IN IF \E i \in 1..Len(kids) : Matches(i)
            THEN LET i == CHOOSE k \in 1..Len(kids) :
                              Matches(k) /\ \A j \in 1..(k - 1) : ~Matches(j)
                 IN findResolver(h, kids[i], Tail(path))
            ELSE 0

\* r.Lookup(path)
Lookup(h, r, path) == findResolver(h, r, Split(path, "."))

\* root.Path = append(root.Parent.Path, field.Name)
ChildPath(sarr, parentPath, name) == SliceAppend(sarr, parentPath, name, "")

\* Unexported fields are skipped.
SkipField(f) == ~f.Exported

\* A builder that looks through two levels of pointers.
ExpandedType_TwoLevels(t) ==
    IF TypeDef(t).Kind = "ptr"
    THEN IF TypeDef(TypeDef(t).Elem).Kind = "ptr"
         THEN TypeDef(TypeDef(t).Elem).Elem
         ELSE TypeDef(t).Elem
    ELSE t

\* A builder that numbers a child by its position among the children.
FieldIndex_Position(i, k) == k

\* child.Index = i, the ordinal of the field in the struct; k is the number
\* of children appended so far.
FieldIndex(i, k) == i

\* The struct type whose fields are expanded: t itself or, for a pointer,
\* its element.
Underlying(t) == IF TypeDef(t).Kind = "ptr" THEN TypeDef(t).Elem ELSE t

\* The type whose fields buildResolver goes through, if it is a struct:
\* one level of pointer is looked through.
ExpandedType(t) == Underlying(t)

RECURSIVE buildResolver(_, _, _, _)
RECURSIVE buildFields(_, _, _, _)

\* The loop over the fields of struct type st from ordinal i on (0-based).
buildFields(h, root, st, i) ==
    LET fields == TypeDef(st).Fields
    IN IF i >= Len(fields) THEN [h |-> h, id |-> root, err |-> Nil]
       ELSE LET field == fields[i + 1]
            IN IF SkipField(field) THEN buildFields(h, root, st, i + 1)
               ELSE LET c == buildResolver(h, field.Type, field, root)
                    IN IF IsFatal(c.err) THEN c
                       ELSE IF c.err # Nil
                       THEN LET ap == SliceAppend(c.h.sarr, c.h.nodes[root].Path,
                                                  field.Name, "")
                                path == Tabulate(ap.s.len, LAMBDA i2 : ap.arrs[ap.s.arr][i2])
                            IN [h |-> [c.h EXCEPT !.sarr = ap.arrs], id |-> 0,
                                err |-> <<ErrLink("build resolver failed", 0,
                                                  Join(path, "."), NoDirective, "")>>
                                        \o c.err]
                       ELSE LET k == Len(c.h.nodes[root].Children)
                                h2 == [c.h EXCEPT
                                         !.nodes[c.id].Index = FieldIndex(i, k),
                                         !.nodes[root].Children = Append(@, c.id)]
                            IN buildFields(h2, root, st, i + 1)

\* The number of buildResolver calls on the stack when the node under
\* `parent` is built.
StackDepth(h, parent) ==
    IF parent = 0 THEN 1 ELSE h.nodes[parent].Path.len + 2

buildResolver(h, t, field, parent) ==
    LET id == Len(h.nodes) + 1
        root == NewResolver(t, field, parent)
    IN IF StackDepth(h, parent) > MaxStackDepth
       THEN [h |-> h, id |-> 0, err |-> StackOverflow]
       ELSE IF ~IsRoot(root)
       THEN LET pd == parseDirectives(h, field.Tag)
            IN IF pd.err # Nil
               THEN [h |-> h, id |-> 0,
                     err |-> PlainErr("parse directives") \o pd.err]
               ELSE LET ap == ChildPath(pd.h.sarr, pd.h.nodes[parent].Path, field.Name)
                        r2 == [root EXCEPT !.Directives = pd.s, !.Path = ap.s]
                        h2 == [pd.h EXCEPT !.sarr = ap.arrs,
                                           !.nodes = Append(@, r2)]
                    IN IF TypeDef(ExpandedType(t)).Kind = "struct"
                       THEN buildFields(h2, id, ExpandedType(t), 0)
                       ELSE [h |-> h2, id |-> id, err |-> Nil]
       ELSE LET h2 == [h EXCEPT !.nodes = Append(@, root)]
            IN IF TypeDef(ExpandedType(t)).Kind = "struct"
               THEN buildFields(h2, id, ExpandedType(t), 0)
               ELSE [h |-> h2, id |-> id, err |-> Nil]

\* buildResolverTree builds a resolver tree from a struct type.
buildResolverTree(h, st) == buildResolver(h, st, NoField, 0)

(***************************************************************************)
(* reflectStructType: the struct type of the value given to New.           *)
(***************************************************************************)
reflectStructType(input) ==
    IF input = ""
    THEN [typ |-> "", err |-> PlainErr("nil type")]
    ELSE LET typ == Underlying(input)
         IN IF TypeDef(typ).Kind # "struct"
            THEN [typ |-> "", err |-> PlainErr("non-struct type")]
            ELSE [typ |-> typ, err |-> Nil]

(***************************************************************************)
(* The tree cloner.                                                        *)
(***************************************************************************)
\* *resolverCopy = *r: the fields of the copy right after the struct copy.
ShallowCopy(r) == r

RECURSIVE copy(_, _)
RECURSIVE copyChildren(_, _, _, _)

\* A copy that hands out the tree it was given.
copy_Shared(h, r) == [h |-> h, id |-> r]

\* The loop of copy over the children of r from the i-th on; rc is the copy.
copyChildren(h, r, rc, i) ==
    IF i > Len(h.nodes[r].Children) THEN [h |-> h, id |-> rc]
    ELSE LET c == copy(h, h.nodes[r].Children[i])
             h2 == [c.h EXCEPT !.nodes[rc].Children[i] = c.id,
                               !.nodes[c.id].Parent = rc]
         IN copyChildren(h2, r, rc, i + 1)

copy(h, r) ==
    LET rc == Len(h.nodes) + 1
        node == [ShallowCopy(h.nodes[r]) EXCEPT
                    !.Context = Background,
                    !.Children = Tabulate(Len(h.nodes[r].Children), LAMBDA i : 0)]
    IN copyChildren([h EXCEPT !.nodes = Append(@, node)], r, rc, 1)

(***************************************************************************)
(* Namespaces, executors and options (the collaborators of the engine).    *)
(***************************************************************************)
\* The context key of the namespace.
ckNamespace == "ckNamespace"

\* (*Namespace)(nil), and the registries of the model.  An executor either
\* writes the value ("set"), leaves it ("noop") or returns an error ("fail");
\* "absent" is a name without an executor.
NilNS == "nilNS"

Executors(ns) ==
    CASE ns = "defaultNS" ->
           [required |-> "absent", default |-> "set", a |-> "set", b |-> "noop",
            c |-> "set"]
      [] ns = "nsB" ->
           [required |-> "set", default |-> "fail", a |-> "set", b |-> "fail",
            c |-> "set"]
      [] OTHER ->
           [required |-> "noop", default |-> "set", a |-> "set", b |-> "fail",
            c |-> "set"]

\* ns.LookupExecutor(name).
LookupExecutor(ns, name) ==
    IF name \in DOMAIN Executors(ns) THEN Executors(ns)[name] ELSE "absent"

\* Options.  WithNamespace(ns) binds ns in the node's context; FailingOption
\* is an option whose Apply returns an error at the nodes of the fields
\* that are not the first of their record, and does nothing at the others.
WithNamespace(ns) == [op |-> "WithNamespace", arg |-> ns]

FailingOption == [op |-> "fail", arg |-> ""]

\* opt.Apply(r): the node after the option, and the option's error.
Apply(opt, node) ==
    IF opt.op = "WithNamespace"
    THEN [node |-> [node EXCEPT !.Context = WithValue(@, ckNamespace, opt.arg)],
          err |-> Nil]
    ELSE [node |-> node,
          err |-> IF node.Index > 0 THEN PlainErr("option failed") ELSE Nil]

\* normalizeOptions: the default namespace is bound first, so that the
\* options of the caller override it.
normalizeOptions(opts) == <<WithNamespace("defaultNS")>> \o opts

\* The option lists a caller passes to New.
OptLists ==
    { <<>>,
      <<WithNamespace("nsA")>>,
      <<WithNamespace(NilNS)>>,
      <<WithNamespace(NilNS), WithNamespace("nsB")>>,
      <<WithNamespace("nsA"), FailingOption, WithNamespace("nsB")>> }

(***************************************************************************)
(* Iterate, the application of the options, and validate.                  *)
(***************************************************************************)
\* What Iterate and its callback did, in order: "call" when the callback
\* is called on a node, "apply" when an option has been applied to it (opt
\* is the position of the option in the list, seen and left the node's
\* context before and after, err what Apply returned), "back" when the
\* callback returns (err is what it returns).
IterEvent(ev, node, opt, seen, left, err) ==
    [ev |-> ev, node |-> node, opt |-> opt, seen |-> seen, left |-> left,
     err |-> err]

\* A callback that goes on with the next option after one that failed.
OptionFails_Never(err) == FALSE

\* Whether the callback of New returns the error of an option.
OptionFails(err) == err # Nil

\* The callback New gives to Iterate: every option in order on node r,
\* stopping at the first error.
RECURSIVE applyOpts(_, _, _, _, _)
applyOpts(h, r, opts, j, log) ==
    IF j > Len(opts) THEN [h |-> h, err |-> Nil, log |-> log]
    ELSE LET a == Apply(opts[j], h.nodes[r])
             log2 == Append(log, IterEvent("apply", r, j, h.nodes[r].Context,
                                           a.node.Context, a.err))
         IN IF OptionFails(a.err) THEN [h |-> h, err |-> a.err, log |-> log2]
            ELSE applyOpts([h EXCEPT !.nodes[r] = a.node], r, opts, j + 1, log2)

\* An iterateTree that goes on after an error of the callback.
StopsIteration_Never(err) == FALSE

\* Whether iterateTree returns the error it got (from the callback or from
\* the subtree of a child).
StopsIteration(err) == err # Nil

\* iterateTree(root, fn) with fn the callback above: the callback on root,
\* then the subtrees of the children in order, stopping at the first error.
RECURSIVE iterateTree(_, _, _, _)
RECURSIVE iterateChildren(_, _, _, _, _)
iterateChildren(h, kids, opts, i, log) ==
    IF i > Len(kids) THEN [h |-> h, err |-> Nil, log |-> log]
    ELSE LET a == iterateTree(h, kids[i], opts, log)
         IN IF StopsIteration(a.err) THEN a
            ELSE iterateChildren(a.h, kids, opts, i + 1, a.log)

iterateTree(h, root, opts, log) ==
    LET ctx == h.nodes[root].Context
        a == applyOpts(h, root, opts, 1,
                       Append(log, IterEvent("call", root, 0, ctx, ctx, Nil)))
        b == [a EXCEPT !.log = Append(@, IterEvent("back", root, 0, ctx,
                                                   a.h.nodes[root].Context, a.err))]
    IN IF StopsIteration(b.err) THEN b
       ELSE iterateChildren(b.h, b.h.nodes[root].Children, opts, 1, b.log)

\* r.Iterate(fn)
IterateFn(h, r, opts) == iterateTree(h, r, opts, <<>>)

\* r.Namespace(): the value bound to ckNamespace, asserted to be a
\* *Namespace.  The assertion panics on the nil interface.
Namespace(node) == CtxValue(node.Context, ckNamespace)

NamespacePanics(node) == Namespace(node) = NilIface

\* A validate that accepts every namespace.
NamespaceIsNil_Never(node) == FALSE

\* The check of validate.
NamespaceIsNil(node) == Namespace(node) = NilNS

validate(node) ==
    IF NamespacePanics(node) THEN PlainErr("panic: interface conversion")
    ELSE IF NamespaceIsNil(node)
    THEN <<ErrLink("validate", 0, <<>>, NoDirective, "ErrNilNamespace")>>
    ELSE Nil

(***************************************************************************)
(* Values (reflect.Value).  The value of a type is a record: w names the   *)
(* directive that last wrote it ("" when nothing did), alloc tells whether *)
(* a pointer points to an allocated record, and f holds the fields of the  *)
(* record (of the pointed-to record for an allocated pointer), one per     *)
(* field of the struct type, visible or not.                               *)
(***************************************************************************)
RECURSIVE Zero(_)
Zero(t) ==
    IF TypeDef(t).Kind = "struct"
    THEN [w |-> "", alloc |-> FALSE,
          f |-> Tabulate(Len(TypeDef(t).Fields),
                         LAMBDA i : Zero(TypeDef(t).Fields[i].Type))]
    ELSE [w |-> "", alloc |-> FALSE, f |-> <<>>]

\* What an executor that writes the value leaves in a value of type t: a
\* pointer to a record of its own, or a value all of whose fields, visible
\* or not, are the executor's.
RECURSIVE Written(_, _, _)
Written(t, val, name) ==
    IF TypeDef(t).Kind = "ptr"
    THEN [w |-> name, alloc |-> TRUE, f |-> Zero(TypeDef(t).Elem).f]
    ELSE IF TypeDef(t).Kind = "struct"
    THEN [w |-> name, alloc |-> FALSE,
          f |-> Tabulate(Len(TypeDef(t).Fields),
                         LAMBDA i : Written(TypeDef(t).Fields[i].Type, val.f[i], name))]
    ELSE [val EXCEPT !.w = name]

(***************************************************************************)
(* The resolve engine.  It keeps a log of what it did: "enter" when        *)
(* resolve starts on a node, "exec" when an executor has run (err is what  *)
(* it returned), "ret" when resolve returns from a node (err is what it    *)
(* returns).                                                               *)
(***************************************************************************)
Event(ev, node, directive, err) ==
    [ev |-> ev, node |-> node, directive |-> directive, err |-> err]

\* ErrMissingExecutor, and the error a failing executor returns.
ErrMissingExecutor == PlainErr("ErrMissingExecutor")

ExecutorFailure(d) == <<ErrLink("executor failure", 0, <<>>, d, "")>>

\* &DirectiveExecutionError{Err: err, Directive: *directive}
DirectiveExecutionError(d, err) ==
    <<ErrLink("DirectiveExecutionError", 0, <<>>, d, "")>> \o err

\* A runDirectives that goes on after a failing executor.
StopsOnError_Never(err) == FALSE

\* Whether runDirectives stops at a directive whose executor returned err.
StopsOnError(err) == err # Nil

\* The loop of runDirectives on node r from the i-th directive on.
RECURSIVE runDirectives(_, _, _, _, _)
runDirectives(h, r, val, log, i) ==
    LET node == h.nodes[r]
        ns == Namespace(node)
    IN IF i > node.Directives.len THEN [val |-> val, err |-> Nil, log |-> log]
       ELSE LET directive == h.dirs[DPtrs(h, node.Directives)[i]]
                exe == LookupExecutor(ns, directive.Name)
            IN IF exe = "absent"
               THEN [val |-> val,
                     err |-> DirectiveExecutionError(directive, ErrMissingExecutor),
                     log |-> log]
               ELSE LET err == IF exe = "fail" THEN ExecutorFailure(directive)
                               ELSE Nil
                        val2 == IF exe = "set"
                                THEN Written(node.Type, val, directive.Name)
                                ELSE val
                        log2 == Append(log, Event("exec", r, directive, err))
                    IN IF StopsOnError(err)
                       THEN [val |-> val2,
                             err |-> DirectiveExecutionError(directive, err),
                             log |-> log2]
                       ELSE runDirectives(h, r, val2, log2, i + 1)

\* A ResolveError that does not wrap: the error of the child as it is.
ResolveError_Unwrapped(child, err) == err

\* &ResolveError{Err: err, Resolver: child}
ResolveError(child, err) ==
    <<ErrLink("ResolveError", child, <<>>, NoDirective, "")>> \o err

\* A resolve that goes on with the next sibling after a failing child.
AbortsOnChildError_Never(err) == FALSE

\* Whether resolve aborts the loop over the children on a child's error.
AbortsOnChildError(err) == err # Nil

\* A resolve that returns the zero value with the error of a child.
ValueOnChildError_Zero(rootValue, zero) == zero

\* The value resolve returns with the error of a child: rootValue, which
\* holds what the earlier children assembled.
ValueOnChildError(rootValue, zero) == rootValue

\* A resolve that assembles the children of a pointer node into a record
\* the result does not point to.
AllocUnderlying_Detached(t, rootValue) == rootValue

\* The value of a node with children before they are assembled: for a
\* pointer, a freshly allocated record it is made to point to.
AllocUnderlying(t, rootValue) ==
    IF TypeDef(t).Kind = "ptr"
    THEN [w |-> "", alloc |-> TRUE, f |-> Zero(TypeDef(t).Elem).f]
    ELSE rootValue

\* A resolve that never writes the value of a child into its parent.
AssembleField_Dropped(rootValue, index, fieldValue) == rootValue

\* A resolve that leaves a field alone once a directive has written it.
AssembleField_KeepWritten(rootValue, index, fieldValue) ==
    IF rootValue.f[index + 1].w # "" THEN rootValue
    ELSE [rootValue EXCEPT !.f[index + 1] = fieldValue]

\* underlyingValue.Elem().Field(child.Index).Set(fieldValue.Elem())
AssembleField(rootValue, index, fieldValue) ==
    [rootValue EXCEPT !.f[index + 1] = fieldValue]

RECURSIVE resolve(_, _, _)
RECURSIVE resolveChildren(_, _, _, _, _)

\* The loop of resolve over the children of root from the i-th on.
resolveChildren(h, root, rootValue, log, i) ==
    LET kids == h.nodes[root].Children
    IN IF i > Len(kids) THEN [val |-> rootValue, err |-> Nil, log |-> log]
       ELSE LET child == kids[i]
                c == resolve(h, child, log)
            IN IF AbortsOnChildError(c.err)
               THEN [val |-> ValueOnChildError(rootValue, Zero(h.nodes[root].Type)),
                     err |-> ResolveError(child, c.err), log |-> c.log]
               ELSE resolveChildren(h, root,
                        AssembleField(rootValue, h.nodes[child].Index, c.val),
                        c.log, i + 1)

resolve(h, root, log) ==
    LET t == h.nodes[root].Type
        d == runDirectives(h, root, Zero(t), Append(log, Event("enter", root, NoDirective, Nil)), 1)
        out == IF d.err # Nil THEN d
               ELSE IF Len(h.nodes[root].Children) > 0
               THEN resolveChildren(h, root, AllocUnderlying(t, d.val), d.log, 1)
               ELSE d
    IN [out EXCEPT !.log = Append(@, Event("ret", root, NoDirective, out.err))]

(***************************************************************************)
(* The state machine.  calls[p] is the New call of caller p:               *)
(*   pc    "idle", "build" (the cache Load missed), "store" (the tree is   *)
(*         built), "copy" (the bare tree is in hand), "done" (returned),   *)
(*         "crashed" (the build overflowed the stack)                      *)
(*   typ   the struct type, bare the tree buildAndCacheResolverTree gave,  *)
(*         tree the tree New returned, err the error New returned, opts    *)
(*         the options the caller gave, mut whether the caller has changed *)
(*         the tree since                                                  *)
(* res is the outcome of the last Resolve call.  runs and vmem belong to   *)
(* the Resolve calls that run step by step (see below).                    *)
(***************************************************************************)
\* A cell of vmem that holds no value.
FreeCell == [w |-> "<free>", alloc |-> FALSE, f |-> <<>>]

\* The addresses of vmem: a cell of the arena of a goroutine.  A resolve
\* call holds one value per frame of its stack.
Addrs == Procs \X (1..MaxStackDepth)

NoAddr == <<"", 0>>

\* A Resolve call that runs step by step: the tree it is on, the stack of
\* its resolve calls, and, once it has finished, what it returned.
IdleRun == [pc |-> "idle", tree |-> 0, stack |-> <<>>, val |-> Zero(""),
            err |-> Nil, log |-> <<>>]

IdleCall == [pc |-> "idle", input |-> "", typ |-> "", opts |-> <<>>, bare |-> 0,
             tree |-> 0, err |-> Nil, mut |-> FALSE]

NoRes == [p |-> "", tree |-> 0, val |-> Zero(""), err |-> Nil, log |-> <<>>]

Init ==
    /\ heap = EmptyHeap
    /\ builtTrees = [t \in AllStructTypes |-> 0]
    /\ calls = [p \in Procs |-> IdleCall]
    /\ started = 0
    /\ res = NoRes
    /\ runs = [p \in Procs |-> IdleRun]
    /\ vmem = [a \in Addrs |-> FreeCell]

\* A cache whose Load never finds anything.
CacheHit_Never(entry) == FALSE

\* builtTrees.Load(typ): whether there is an entry (0 is none).
CacheHit(entry) == entry # 0

\* New, up to the cache Load of buildAndCacheResolverTree.
NewLoad(p, input) ==
    /\ calls[p].pc = "idle"
    /\ started < MaxCalls
    /\ started' = started + 1
    /\ LET t == reflectStructType(input)
           c == [IdleCall EXCEPT !.input = input]
       IN calls' = [calls EXCEPT ![p] =
            IF t.err # Nil THEN [c EXCEPT !.pc = "done", !.err = t.err]
            ELSE IF CacheHit(builtTrees[t.typ])
            THEN [c EXCEPT !.pc = "copy", !.typ = t.typ, !.bare = builtTrees[t.typ]]
            ELSE [c EXCEPT !.pc = "build", !.typ = t.typ]]
    /\ UNCHANGED <<heap, builtTrees, res, runs, vmem>>

\* buildAndCacheResolverTree after a miss: the build.  A failed build
\* returns the error; what it allocated is garbage.
NewBuild(p) ==
    /\ calls[p].pc = "build"
    /\ LET b == buildResolverTree(heap, calls[p].typ)
       IN IF IsFatal(b.err)
          THEN /\ calls' = [calls EXCEPT ![p].pc = "crashed", ![p].err = b.err]
               /\ heap' = heap
          ELSE IF b.err # Nil
          THEN /\ calls' = [calls EXCEPT ![p].pc = "done", ![p].err = b.err]
               /\ heap' = heap
          ELSE /\ calls' = [calls EXCEPT ![p].pc = "store", ![p].bare = b.id]
               /\ heap' = b.h
    /\ UNCHANGED <<builtTrees, started, res, runs, vmem>>

\* buildAndCacheResolverTree: builtTrees.Store(typ, tree).
NewStore(p) ==
    /\ calls[p].pc = "store"
    /\ builtTrees' = [builtTrees EXCEPT ![calls[p].typ] = calls[p].bare]
    /\ calls' = [calls EXCEPT ![p].pc = "copy"]
    /\ UNCHANGED <<heap, started, res, runs, vmem>>

\* The rest of New: copy, the options on every node, validate.  On an
\* error New returns nil and the clone is garbage.
NewFinish(p, opts) ==
    /\ calls[p].pc = "copy"
    /\ LET c == copy(heap, calls[p].bare)
           o == IterateFn(c.h, c.id, normalizeOptions(opts))
           v == validate(o.h.nodes[c.id])
           err == IF o.err # Nil THEN o.err ELSE v
       IN IF err # Nil
          THEN /\ calls' = [calls EXCEPT ![p].pc = "done", ![p].tree = 0,
                                         ![p].err = err, ![p].opts = opts]
               /\ heap' = heap
          ELSE /\ calls' = [calls EXCEPT ![p].pc = "done", ![p].tree = c.id,
                                         ![p].opts = opts]
               /\ heap' = o.h
    /\ UNCHANGED <<builtTrees, started, res, runs, vmem>>

\* r.Resolve() on the tree New returned to caller p.
Resolve(p) ==
    /\ calls[p].pc = "done"
    /\ calls[p].tree # 0
    /\ LET r == resolve(heap, calls[p].tree, <<>>)
       IN res' = [p |-> p, tree |-> calls[p].tree, val |-> r.val, err |-> r.err,
                  log |-> r.log]
    /\ UNCHANGED <<heap, builtTrees, calls, started, runs, vmem>>

\* The heap once the clone rooted at `tree` is unreachable: its nodes are
\* collected when they are the most recently allocated ones (a clone
\* allocates nodes only, in one block).
Collect(h, tree) ==
    IF tree # 0 /\ \A i \in tree..Len(h.nodes) : i = tree \/ h.nodes[i].Parent >= tree
    THEN [h EXCEPT !.nodes = SubSeq(@, 1, tree - 1)]
    ELSE h

\* The caller drops what New returned and is ready for another call.
Release(p) ==
    /\ calls[p].pc = "done"
    /\ calls' = [calls EXCEPT ![p] = IdleCall]
    /\ res' = IF res.p = p THEN NoRes ELSE res
    /\ heap' = Collect(heap, calls[p].tree)
    /\ UNCHANGED <<builtTrees, started, runs, vmem>>

\* The steps of New and the release of its result.
NextNew ==
    \E p \in Procs :
        \/ \E input \in Inputs : NewLoad(p, input)
        \/ NewBuild(p)
        \/ NewStore(p)
        \/ \E opts \in OptLists : NewFinish(p, opts)
        \/ Release(p)

Next ==
    \/ NextNew
    \/ \E p \in Procs : Resolve(p)

Spec == Init /\ [][Next]_vars

(***************************************************************************)
(* Sequential use: one New call at a time, and Iterate called by the       *)
(* holder of a tree on any node of it.  A visitor is the callback of New   *)
(* for some list of options; Iterate leaves its outcome in res.            *)
(***************************************************************************)
Visitors == { <<>>, <<FailingOption>> }

Iterate(p, n, visitor) ==
    /\ calls[p].pc = "done"
    /\ calls[p].tree # 0
    /\ n \in Desc(heap, calls[p].tree)
    /\ LET o == IterateFn(heap, n, visitor)
       IN /\ heap' = o.h
          /\ res' = [p |-> p, tree |-> n, val |-> Zero(""), err |-> o.err,
                     log |-> o.log]
    /\ UNCHANGED <<builtTrees, calls, started, runs, vmem>>

\* No caller other than p is inside New.
Sequential(p) == \A q \in Procs \ {p} : calls[q].pc \in {"idle", "done"}

NextSeq ==
    \E p \in Procs :
        \/ /\ Sequential(p)
           /\ \/ \E input \in Inputs : NewLoad(p, input)
              \/ NewBuild(p)
              \/ NewStore(p)
              \/ \E opts \in OptLists : NewFinish(p, opts)
        \/ Release(p)
        \/ Resolve(p)
        \/ \E n \in 1..Len(heap.nodes), visitor \in Visitors : Iterate(p, n, visitor)

SpecSeq == Init /\ [][NextSeq]_vars

(***************************************************************************)
(* Resolve calls in flight at the same time.  Here a Resolve runs step by  *)
(* step: a step is the part of one resolve call between two calls or       *)
(* returns of resolve.  The values resolve makes with reflect.New live in  *)
(* the memory vmem, shared by all goroutines (the allocator serves each    *)
(* goroutine from an arena of its own); a frame of the stack holds         *)
(* the node, the address of its rootValue, where the call is ("enter": at  *)
(* its start, "kids": waiting for child number i, "ret": about to return   *)
(* err).  Any goroutine may resolve the tree New returned to any caller.   *)
(***************************************************************************)
Frame(node, addr, phase, i, err) ==
    [node |-> node, addr |-> addr, phase |-> phase, i |-> i, err |-> err]

\* A reflect.New that hands out the same memory every time.
NewValue_Reused(vm, p) == <<"p1", 1>>

\* reflect.New called by goroutine p: the address of memory that holds no
\* value, the first such cell of the arena of p.
NewValue(vm, p) ==
    <<p, CHOOSE k \in 1..MaxStackDepth :
             vm[<<p, k>>] = FreeCell /\ \A j \in 1..(k - 1) : vm[<<p, j>>] # FreeCell>>

\* The memory with value v at address a.
Store(vm, a, v) == [vm EXCEPT ![a] = v]

ResolveStart(p, q) ==
    /\ runs[p].pc = "idle"
    /\ \A o \in Procs : calls[o].pc = "done"
    /\ calls[q].tree # 0
    /\ runs' = [runs EXCEPT ![p] =
            [IdleRun EXCEPT !.pc = "running", !.tree = calls[q].tree,
                            !.stack = <<Frame(calls[q].tree, NoAddr, "enter", 1, Nil)>>]]
    /\ UNCHANGED <<heap, builtTrees, calls, started, res, vmem>>

\* The start of a resolve call: rootValue is made, the directives run on
\* it, and either the call is about to return or it has allocated the
\* underlying record and calls resolve on its first child.
StepEnter(p) ==
    LET run == runs[p]
        top == run.stack[Len(run.stack)]
        node == heap.nodes[top.node]
        addr == NewValue(vmem, p)
        d == runDirectives(heap, top.node, Zero(node.Type),
                           Append(run.log, Event("enter", top.node, NoDirective, Nil)), 1)
        leaf == d.err # Nil \/ Len(node.Children) = 0
        top2 == IF leaf THEN Frame(top.node, addr, "ret", 1, d.err)
                ELSE Frame(top.node, addr, "kids", 1, Nil)
        below == SubSeq(run.stack, 1, Len(run.stack) - 1)
    IN /\ top.phase = "enter"
       /\ vmem' = Store(vmem, addr,
                        IF leaf THEN d.val ELSE AllocUnderlying(node.Type, d.val))
       /\ runs' = [runs EXCEPT ![p].log = d.log,
                               ![p].stack =
                                   IF leaf THEN Append(below, top2)
                                   ELSE below \o <<top2, Frame(node.Children[1], NoAddr,
                                                               "enter", 1, Nil)>>]

\* The return of a resolve call to its caller: the caller returns the
\* ResolveError of the child, or sets the field of the child and goes on
\* with the next child, or has no child left.  The value of the child is
\* not used after that.
StepReturn(p) ==
    LET run == runs[p]
        top == run.stack[Len(run.stack)]
        log2 == Append(run.log, Event("ret", top.node, NoDirective, top.err))
        parent == run.stack[Len(run.stack) - 1]
        kids == heap.nodes[parent.node].Children
        below == SubSeq(run.stack, 1, Len(run.stack) - 2)
    IN /\ top.phase = "ret"
       /\ IF Len(run.stack) = 1
          THEN /\ runs' = [runs EXCEPT ![p] =
                      [run EXCEPT !.pc = "finished", !.stack = <<>>,
                                  !.val = vmem[top.addr], !.err = top.err,
                                  !.log = log2]]
               /\ vmem' = Store(vmem, top.addr, FreeCell)
          ELSE IF AbortsOnChildError(top.err)
          THEN /\ runs' = [runs EXCEPT ![p].log = log2,
                              ![p].stack = Append(below,
                                  Frame(parent.node, parent.addr, "ret", parent.i,
                                        ResolveError(top.node, top.err)))]
               /\ vmem' = Store(vmem, top.addr, FreeCell)
          ELSE /\ runs' = [runs EXCEPT ![p].log = log2,
                              ![p].stack =
                                  IF parent.i + 1 > Len(kids)
                                  THEN Append(below, Frame(parent.node, parent.addr,
                                                           "ret", parent.i + 1, Nil))
                                  ELSE below \o
                                       <<Frame(parent.node, parent.addr, "kids",
                                               parent.i + 1, Nil),
                                         Frame(kids[parent.i + 1], NoAddr, "enter", 1, Nil)>>]
               /\ vmem' = Store(Store(vmem, parent.addr,
                                      AssembleField(vmem[parent.addr],
                                                    heap.nodes[top.node].Index,
                                                    vmem[top.addr])),
                                top.addr, FreeCell)

ResolveStep(p) ==
    /\ runs[p].pc = "running"
    /\ StepEnter(p) \/ StepReturn(p)
    /\ UNCHANGED <<heap, builtTrees, calls, started, res>>

\* The New calls that make the trees: one call of each caller, one after
\* the other.
ConcInputs == {"Deep", "*Config"}

ConcOptLists == { <<>>, <<WithNamespace("nsA")>> }

NextConc ==
    \/ \E p \in Procs :
          /\ Sequential(p)
          /\ \/ \E input \in ConcInputs : NewLoad(p, input)
             \/ NewBuild(p)
             \/ NewStore(p)
             \/ \E opts \in ConcOptLists : NewFinish(p, opts)
    \/ \E p, q \in Procs : ResolveStart(p, q)
    \/ \E p \in Procs : ResolveStep(p)

SpecConc == Init /\ [][NextConc]_vars

(***************************************************************************)
(* New on the inputs that exercise the builder.  A stack overflow ends the *)
(* program: nothing happens after it.                                      *)
(***************************************************************************)
Crashed == \E p \in Procs : calls[p].pc = "crashed"

NextBuild ==
    /\ ~Crashed
    /\ \E p \in Procs :
          \/ \E input \in BuildInputs : NewLoad(p, input)
          \/ NewBuild(p)
          \/ NewStore(p)
          \/ NewFinish(p, <<>>)
          \/ Release(p)

SpecBuild == Init /\ [][NextBuild]_vars

(***************************************************************************)
(* Callers that change the tree New returned to them.  The fields of a     *)
(* Resolver are exported, so a caller (or an option) may edit a directive  *)
(* of a node in place, append a directive, overwrite an element of Path or *)
(* bind a value in Context.  A tree is changed at most once, at a leaf,    *)
(* and only while no other changed tree is held.                           *)
(***************************************************************************)
MutationKinds ==
    {"edit directive", "append directive", "set path element", "set context"}

\* The heap after the change of kind `kind` to node n.
Mutated(h, n, kind) ==
    LET node == h.nodes[n]
    IN CASE kind = "edit directive" ->
              [h EXCEPT !.dirs[h.darr[node.Directives.arr][1]].Argv = <<"edited">>]
         [] kind = "append directive" ->
              LET ap == SliceAppend(h.darr, node.Directives, Len(h.dirs) + 1, 0)
              IN [h EXCEPT !.dirs = Append(@, Directive("added", <<>>)),
                           !.darr = ap.arrs,
                           !.nodes[n].Directives = ap.s]
         [] kind = "set path element" ->
              [h EXCEPT !.sarr[node.Path.arr][node.Path.len] = "renamed"]
         [] OTHER ->
              [h EXCEPT !.nodes[n].Context = WithValue(@, "key", "value")]

Mutate(p, n, kind) ==
    /\ calls[p].pc = "done"
    /\ calls[p].tree # 0
    /\ \A q \in Procs : ~calls[q].mut
    /\ n \in Desc(heap, calls[p].tree)
    /\ IsLeaf(heap.nodes[n])
    /\ kind = "edit directive" => heap.nodes[n].Directives.len > 0
    /\ kind = "set path element" => heap.nodes[n].Path.len > 0
    /\ heap' = Mutated(heap, n, kind)
    /\ calls' = [calls EXCEPT ![p].mut = TRUE]
    /\ res' = IF res.p = p THEN NoRes ELSE res
    /\ UNCHANGED <<builtTrees, started, runs, vmem>>

NextMut ==
    \/ NextNew
    \/ \E p \in Procs, kind \in MutationKinds :
          \E n \in 1..Len(heap.nodes) : Mutate(p, n, kind)

SpecMut == Init /\ [][NextMut]_vars

(***************************************************************************)
(* Reading trees and logs.                                                 *)
(***************************************************************************)
\* The Directive values of a node, in slice order.
DirectivesOf(h, n) ==
    Tabulate(h.nodes[n].Directives.len,
             LAMBDA i : h.dirs[DPtrs(h, h.nodes[n].Directives)[i]])

\* The positions of the log of the last Resolve, and those of one node.
LogPos == 1..Len(res.log)

EventsOf(ev, n) ==
    LET Is(e) == e.ev = ev /\ e.node = n IN SelectSeq(res.log, Is)

\* The nodes resolve entered, and what resolve returned from node n.
Entered == {res.log[k].node : k \in {j \in LogPos : res.log[j].ev = "enter"}}

Returned(n) == EventsOf("ret", n)[1].err

\* The children of p that resolve entered, in the order it entered them.
EnteredChildren(p) ==
    LET Is(e) == e.ev = "enter" /\ heap.nodes[e.node].Parent = p /\ e.node # res.tree
        evs == SelectSeq(res.log, Is)
    IN Tabulate(Len(evs), LAMBDA i : evs[i].node)

\* The trees in hand: the bare trees (cached, or built by a call that has
\* not returned yet) and the trees New has returned.
BareTrees ==
    {builtTrees[t] : t \in {u \in AllStructTypes : builtTrees[u] # 0}}
        \cup {calls[p].bare : p \in {q \in Procs : calls[q].pc \in {"store", "copy"}}}

ReturnedTrees ==
    {calls[p].tree : p \in {q \in Procs : calls[q].pc = "done" /\ calls[q].tree # 0}}

\* What a tree looks like, node identities and contexts left out.
RECURSIVE Shape(_, _)
Shape(h, r) ==
    [Type |-> h.nodes[r].Type, Name |-> h.nodes[r].Field.Name,
     Index |-> h.nodes[r].Index, Path |-> Strs(h, h.nodes[r].Path),
     Directives |-> DirectivesOf(h, r),
     Children |-> Tabulate(Len(h.nodes[r].Children),
                           LAMBDA i : Shape(h, h.nodes[r].Children[i]))]

NoShape ==
    [Type |-> "", Name |-> "", Index |-> -1, Path |-> <<>>, Directives |-> <<>>,
     Children |-> <<>>]

\* The tree a build of type t alone gives.
SequentialShape ==
    [t \in StructTypes |->
        LET b == buildResolverTree(EmptyHeap, t)
        IN IF b.err = Nil THEN Shape(b.h, b.id) ELSE NoShape]

\* Every child points back to its parent, and the root to nobody.
WellLinked(h, r) ==
    /\ h.nodes[r].Parent = 0
    /\ \A n \in Desc(h, r) :
          \A i \in 1..Len(h.nodes[n].Children) :
              h.nodes[h.nodes[n].Children[i]].Parent = n

(***************************************************************************)
(* C1.  During Resolve the children of a node are resolved in Children     *)
(* order, and the first child whose resolution fails aborts the parent at  *)
(* once: nothing of a later sibling or of its descendants appears in the   *)
(* log of that call, and the parent returns, as its next step, a           *)
(* ResolveError whose Resolver is the failing child and whose Err is the   *)
(* child's error.                                                          *)
(***************************************************************************)
C1_FirstChildFailureAborts ==
    /\ \A p \in Entered :
          EnteredChildren(p) =
              SubSeq(heap.nodes[p].Children, 1, Len(EnteredChildren(p)))
    /\ \A k \in LogPos :
          LET e == res.log[k]
              c == e.node
              p == heap.nodes[c].Parent
              kids == heap.nodes[p].Children
          IN (e.ev = "ret" /\ e.err # Nil /\ c # res.tree) =>
                /\ \A j \in 1..Len(kids), i \in 1..Len(kids) :
                      (kids[i] = c /\ j > i) =>
                          \A n \in Desc(heap, kids[j]), m \in LogPos :
                              res.log[m].node # n
                /\ k < Len(res.log)
                /\ res.log[k + 1] = Event("ret", p, NoDirective, ResolveError(c, e.err))

\* Config{Host `required`; Port `default=8080`} resolved in a namespace
\* without an executor for `required`: Host has failed, the call has returned its error, and Port
\* has a `default` directive that never ran.
C1_Witness ==
    /\ res.tree # 0
    /\ heap.nodes[res.tree].Type = "Config"
    /\ LET kids == heap.nodes[res.tree].Children
       IN /\ Len(kids) = 2
          /\ Returned(kids[1]) # Nil
          /\ res.err = ResolveError(kids[1], Returned(kids[1]))
          /\ DirectivesOf(heap, kids[2])[1].Name = "default"
          /\ EventsOf("exec", kids[2]) = <<>>

(***************************************************************************)
(* C3.  On one node runDirectives executes the directives in slice order   *)
(* and stops at the first one that has no executor (the error wraps        *)
(* ErrMissingExecutor) or whose executor fails (the error wraps its        *)
(* cause): a DirectiveExecutionError carrying that directive is returned,  *)
(* no later directive of the node is executed and no child of the node is  *)
(* resolved.                                                               *)
(***************************************************************************)
C3_DirectivesInOrderStopAtFirstFailure ==
    \A n \in Entered :
        LET ds == DirectivesOf(heap, n)
            ex == EventsOf("exec", n)
            ns == Namespace(heap.nodes[n])
            m == Len(ex)
        IN /\ m <= Len(ds)
           /\ \A i \in 1..m : ex[i].directive = ds[i]
           /\ \A i \in 1..(m - 1) : ex[i].err = Nil
           /\ (m > 0 /\ ex[m].err # Nil) =>
                 /\ Returned(n) = DirectiveExecutionError(ds[m], ex[m].err)
                 /\ EnteredChildren(n) = <<>>
           /\ (m < Len(ds) /\ (m = 0 \/ ex[m].err = Nil)) =>
                 /\ LookupExecutor(ns, ds[m + 1].Name) = "absent"
                 /\ Returned(n) = DirectiveExecutionError(ds[m + 1], ErrMissingExecutor)
                 /\ EnteredChildren(n) = <<>>
           /\ (m = Len(ds) /\ (m = 0 \/ ex[m].err = Nil)) =>
                 (Returned(n) = Nil \/ Returned(n)[1].Kind = "ResolveError")

\* A node with three directives whose second executor failed: the first
\* two ran in order, the third never ran.
C3_Witness ==
    \E n \in Entered :
        /\ Len(DirectivesOf(heap, n)) = 3
        /\ Len(EventsOf("exec", n)) = 2
        /\ EventsOf("exec", n)[1].err = Nil
        /\ EventsOf("exec", n)[2].err # Nil
        /\ Returned(n) = DirectiveExecutionError(DirectivesOf(heap, n)[2],
                                                 EventsOf("exec", n)[2].err)

(***************************************************************************)
(* C2.  As claimed: whenever Resolve returns an error, the value returned  *)
(* with it holds nothing produced during the failed call (it is the zero   *)
(* value of the type).                                                     *)
(***************************************************************************)
C2_Original_NoPartialValue ==
    (res.tree # 0 /\ res.err # Nil) => res.val = Zero(heap.nodes[res.tree].Type)

(***************************************************************************)
(* C2, amended.  When Resolve returns the error of a failing child, the    *)
(* value returned with it is the node's value as assembled so far: the     *)
(* field of every child resolved before the failing one holds what that    *)
(* child resolved to, and the fields of the failing child, of the later    *)
(* children and of the fields without a node are zero.                     *)
(***************************************************************************)
C2_PartialValueOnError ==
    (res.tree # 0 /\ res.err # Nil /\ res.err[1].Kind = "ResolveError") =>
        LET root == heap.nodes[res.tree]
            kids == root.Children
            fields == TypeDef(root.Type).Fields
            failing == CHOOSE i \in 1..Len(kids) : kids[i] = res.err[1].Node
        IN /\ res.val.w = ""
           /\ Len(res.val.f) = Len(fields)
           /\ \A j \in 1..Len(kids) :
                 res.val.f[heap.nodes[kids[j]].Index + 1] =
                     IF j < failing THEN resolve(heap, kids[j], <<>>).val
                     ELSE Zero(heap.nodes[kids[j]].Type)
           /\ \A o \in 1..Len(fields) :
                 (\A j \in 1..Len(kids) : heap.nodes[kids[j]].Index + 1 # o) =>
                     res.val.f[o] = Zero(fields[o].Type)

\* Config resolved with a `required` that writes Host and a failing
\* `default`: the error of Port comes with a value whose Host is written.
C2_Witness ==
    /\ res.tree # 0
    /\ heap.nodes[res.tree].Type = "Config"
    /\ res.err # Nil
    /\ res.err[1].Node = heap.nodes[res.tree].Children[2]
    /\ res.val.f[1].w = "required"
    /\ res.val.f[2] = Zero("int")

(***************************************************************************)
(* C9.  As claimed: resolving a tree without any directive succeeds and    *)
(* returns the zero value of the type at every level of nesting, pointer   *)
(* fields included.                                                        *)
(***************************************************************************)
NoDirectives(h, r) == \A n \in Desc(h, r) : h.nodes[n].Directives.len = 0

C9_Original_ZeroValue ==
    (res.tree # 0 /\ NoDirectives(heap, res.tree)) =>
        /\ res.err = Nil
        /\ res.val = Zero(heap.nodes[res.tree].Type)

(***************************************************************************)
(* C9, amended.  Resolving a tree without any directive succeeds, and in   *)
(* the value it returns every field that is not a pointer is zero at every *)
(* level; a field whose type is a pointer to a record with at least one    *)
(* visible field is not nil: it points to a freshly allocated record whose *)
(* fields follow the same rule; a pointer to a record without visible      *)
(* fields is nil.                                                          *)
(***************************************************************************)
HasVisibleField(t) ==
    /\ TypeDef(t).Kind = "struct"
    /\ \E i \in 1..Len(TypeDef(t).Fields) : TypeDef(t).Fields[i].Exported

RECURSIVE ResolvedZero(_)
ResolvedZero(t) ==
    LET FieldsOf(st) ==
            Tabulate(Len(TypeDef(st).Fields),
                     LAMBDA i : IF TypeDef(st).Fields[i].Exported
                                THEN ResolvedZero(TypeDef(st).Fields[i].Type)
                                ELSE Zero(TypeDef(st).Fields[i].Type))
    IN IF TypeDef(t).Kind = "struct"
       THEN [w |-> "", alloc |-> FALSE, f |-> FieldsOf(t)]
       ELSE IF TypeDef(t).Kind = "ptr" /\ HasVisibleField(TypeDef(t).Elem)
       THEN [w |-> "", alloc |-> TRUE, f |-> FieldsOf(TypeDef(t).Elem)]
       ELSE [w |-> "", alloc |-> FALSE, f |-> <<>>]

C9_ZeroValueWithAllocatedPointers ==
    (res.tree # 0 /\ NoDirectives(heap, res.tree)) =>
        /\ res.err = Nil
        /\ res.val = ResolvedZero(heap.nodes[res.tree].Type)

\* Plain resolved: P (a pointer to a record with visible fields) is
\* allocated, Q (a pointer to a record without any) is nil.
C9_Witness ==
    /\ res.tree # 0
    /\ heap.nodes[res.tree].Type = "Plain"
    /\ NoDirectives(heap, res.tree)
    /\ res.err = Nil
    /\ res.val.f[3].alloc
    /\ ~res.val.f[4].alloc

(***************************************************************************)
(* C5.  New calls running concurrently on a type, under every interleaving *)
(* of the cache Load, the build and the cache Store: every tree New        *)
(* returns is complete and equal in shape to the one a build alone gives;  *)
(* no two returned trees share a node, nor does one share a node with a    *)
(* cached tree; every cached tree is complete; and an entry once stored is *)
(* never removed, every later entry of the type having the same shape.     *)
(***************************************************************************)
C5_TreesComplete ==
    /\ \A p \in Procs :
          (calls[p].pc = "done" /\ calls[p].tree # 0) =>
              /\ Shape(heap, calls[p].tree) = SequentialShape[calls[p].typ]
              /\ WellLinked(heap, calls[p].tree)
    /\ \A r1 \in ReturnedTrees :
          /\ \A r2 \in ReturnedTrees \ {r1} : Desc(heap, r1) \cap Desc(heap, r2) = {}
          /\ \A b \in BareTrees : Desc(heap, r1) \cap Desc(heap, b) = {}
    /\ \A t \in StructTypes :
          builtTrees[t] # 0 =>
              /\ Shape(heap, builtTrees[t]) = SequentialShape[t]
              /\ SequentialShape[t] # NoShape
              /\ WellLinked(heap, builtTrees[t])

C5_EntriesStay ==
    \A t \in StructTypes :
        builtTrees[t] # 0 =>
            /\ builtTrees'[t] # 0
            /\ Shape(heap', builtTrees'[t]) = Shape(heap, builtTrees[t])

C5_ConcurrentFirstBuilds == [](C5_TreesComplete) /\ [][C5_EntriesStay]_vars

\* Two callers that both missed the cache, each built the tree of the same
\* type, and both have their own tree returned.
C5_Witness ==
    /\ calls["p1"].pc = "done" /\ calls["p2"].pc = "done"
    /\ calls["p1"].typ = "Deep" /\ calls["p2"].typ = "Deep"
    /\ calls["p1"].tree # 0 /\ calls["p2"].tree # 0
    /\ calls["p1"].bare # calls["p2"].bare

(***************************************************************************)
(* C6.  As claimed: in every tree of a completed build, every node's Path  *)
(* is its parent's Path followed by its own field name, at every depth and *)
(* for all nodes at once; the root's Path is empty and its Index is -1.    *)
(***************************************************************************)
C6_PathIsParentPathPlusName ==
    \A r \in BareTrees \cup ReturnedTrees :
        /\ heap.nodes[r].Path.len = 0
        /\ heap.nodes[r].Index = -1
        /\ \A n \in Desc(heap, r) \ {r} :
              /\ Strs(heap, heap.nodes[n].Path) =
                     Append(Strs(heap, heap.nodes[heap.nodes[n].Parent].Path),
                            heap.nodes[n].Field.Name)
              /\ PathString(heap, heap.nodes[n]) =
                     Join(Strs(heap, heap.nodes[n].Path), ".")

(***************************************************************************)
(* C7.  In every built tree, a node whose type is a record (or a pointer   *)
(* to one) has one child per visible field, in declaration order, and none *)
(* for a field that is not visible; the Index of a child is the ordinal of *)
(* its field in the record, hidden fields counted, so it grows strictly    *)
(* along Children.  The build of a type whose tags are well formed         *)
(* succeeds.                                                               *)
(***************************************************************************)
\* The 0-based ordinals of the visible fields of struct type st, ascending.
VisibleOrdinals(st) ==
    LET IsVisible(i) == TypeDef(st).Fields[i + 1].Exported
    IN SelectSeq(Tabulate(Len(TypeDef(st).Fields), LAMBDA i : i - 1), IsVisible)

\* Whether a tag is malformed: a segment the grammar rejects, or a name
\* that occurs twice.
TagMalformed(tag) ==
    LET NonEmpty(seg) == TrimSpace(seg) # <<>>
        segs == SelectSeq(Split(TrimSpace(tag), ";"), NonEmpty)
    IN \/ \E i \in 1..Len(segs) : ParseDirective(segs[i]).err # Nil
       \/ \E i, j \in 1..Len(segs) :
             i < j /\ ParseDirective(segs[i]).d.Name = ParseDirective(segs[j]).d.Name

\* The path of field names to the first field of struct type st, in
\* declaration order and depth first, whose tag is malformed; <<>> when
\* there is none.  With visibleOnly, fields that are not visible (and what
\* lies below them) are passed over.
RECURSIVE FirstMalformed(_, _, _)
FirstMalformed(st, visibleOnly, i) ==
    IF i > Len(TypeDef(st).Fields) THEN <<>>
    ELSE LET f == TypeDef(st).Fields[i]
             below == IF TypeDef(Underlying(f.Type)).Kind = "struct"
                      THEN FirstMalformed(Underlying(f.Type), visibleOnly, 1)
                      ELSE <<>>
         IN IF visibleOnly /\ ~f.Exported THEN FirstMalformed(st, visibleOnly, i + 1)
            ELSE IF TagMalformed(f.Tag) THEN <<f.Name>>
            ELSE IF below # <<>> THEN <<f.Name>> \o below
            ELSE FirstMalformed(st, visibleOnly, i + 1)

\* Whether New returned an error of the build.
IsBuildError(err) ==
    err # Nil /\ err[1].Kind \in {"build resolver failed", "parse directives"}

RECURSIVE BoundNamespace(_)
BoundNamespace(opts) ==
    IF opts = <<>> THEN NilIface
    ELSE IF opts[Len(opts)].op = "WithNamespace" THEN opts[Len(opts)].arg
    ELSE BoundNamespace(SubSeq(opts, 1, Len(opts) - 1))

ErrNilNamespace == <<ErrLink("validate", 0, <<>>, NoDirective, "ErrNilNamespace")>>

C8_NamespaceValidated ==
    \A p \in Procs :
        calls[p].pc = "done" =>
            /\ calls[p].tree # 0 =>
                  /\ Namespace(heap.nodes[calls[p].tree]) \notin {NilNS, NilIface}
                  /\ calls[p].err = Nil
            /\ ( /\ calls[p].bare # 0
                 /\ \A i \in 1..Len(calls[p].opts) : calls[p].opts[i] # FailingOption
                 /\ BoundNamespace(normalizeOptions(calls[p].opts)) = NilNS ) =>
                  /\ calls[p].tree = 0
                  /\ calls[p].err = ErrNilNamespace

\* New called with WithNamespace(nil) as its only option has returned
\* ErrNilNamespace, and another New, whose options bind nil first and a
\* namespace after it, has returned a tree.
C8_Witness ==
    /\ calls["p1"].pc = "done"
    /\ calls["p1"].opts = <<WithNamespace(NilNS)>>
    /\ calls["p1"].err = ErrNilNamespace
    /\ calls["p2"].pc = "done"
    /\ calls["p2"].opts = <<WithNamespace(NilNS), WithNamespace("nsB")>>
    /\ calls["p2"].tree # 0

(***************************************************************************)
(* C10.  As claimed: if any field anywhere in the record type has a tag    *)
(* with a repeated directive name or an unparsable segment, the build      *)
(* fails: New returns an error naming the dotted path of that field and no *)
(* tree, nothing is stored for the type, and a later New builds again and  *)
(* fails in the same way.                                                  *)
(***************************************************************************)
\* The links of an error that name a path, outermost first.
PathsNamed(err) ==
    LET Names(l) == l.Kind = "build resolver failed"
        ls == SelectSeq(err, Names)
    IN Tabulate(Len(ls), LAMBDA i : ls[i].Path)

BuildFailsAt(t, path) ==
    /\ builtTrees[t] = 0
    /\ \A p \in Procs :
          calls[p].typ = t =>
              /\ calls[p].pc \in {"build", "done"}
              /\ calls[p].bare = 0
              /\ calls[p].tree = 0
              /\ calls[p].pc = "done" =>
                    /\ IsBuildError(calls[p].err)
                    /\ Len(PathsNamed(calls[p].err)) = Len(path)
                    /\ PathsNamed(calls[p].err)[Len(path)] = Join(path, ".")
                    /\ calls[p].err[Len(calls[p].err)].Cause
                           \in {"ErrDuplicateDirective", "ErrInvalidDirective"}

C10_Original_AnyMalformedTagFailsBuild ==
    \A t \in StructTypes :
        FirstMalformed(t, FALSE, 1) # <<>> =>
            BuildFailsAt(t, FirstMalformed(t, FALSE, 1))

(***************************************************************************)
(* C10, amended.  If a visible field that the builder reaches (a visible   *)
(* field of the root record, or of a record reached through visible fields *)
(* of record or pointer-to-record type) has such a tag, the build fails:   *)
(* New returns an error naming the dotted path of that field and no tree,  *)
(* nothing is stored for the type, and a later New builds again and fails  *)
(* in the same way.  The tag of a field that is not visible is never       *)
(* parsed and fails nothing.                                               *)
(***************************************************************************)
C10_MalformedVisibleTagFailsBuild ==
    \A t \in StructTypes :
        FirstMalformed(t, TRUE, 1) # <<>> =>
            BuildFailsAt(t, FirstMalformed(t, TRUE, 1))

\* Two New calls for BadDup, whose field In.W repeats a name: both built,
\* both failed with the same error naming In.W, and nothing is cached.
C10_Witness ==
    /\ calls["p1"].pc = "done" /\ calls["p2"].pc = "done"
    /\ calls["p1"].typ = "BadDup" /\ calls["p2"].typ = "BadDup"
    /\ calls["p1"].err = calls["p2"].err
    /\ PathsNamed(calls["p1"].err) = <<<<"In">>, <<"In", ".", "W">>>>
    /\ builtTrees["BadDup"] = 0

(***************************************************************************)
(* C4.  As claimed: a tree New returned is isolated from the cached tree   *)
(* and from every other tree New returned for the type: whatever a caller  *)
(* changes in one tree (Context, Children, Path or Directives of a node,   *)
(* a directive edited in place), the cached tree and the trees the other   *)
(* callers hold are as they were built, and so is the tree of a later New. *)
(***************************************************************************)
C4_ClonesIsolated ==
    /\ \A t \in StructTypes :
          builtTrees[t] # 0 => Shape(heap, builtTrees[t]) = SequentialShape[t]
    /\ \A p \in Procs :
          (calls[p].pc = "done" /\ calls[p].tree # 0 /\ ~calls[p].mut) =>
              Shape(heap, calls[p].tree) = SequentialShape[calls[p].typ]

(***************************************************************************)
(* C11.  As claimed: Lookup(path) on a node goes down from it by matching  *)
(* the dot-separated segments of path, in order, against the field names   *)
(* of the children of the node reached so far, and is nil as soon as a     *)
(* segment matches no child; and for every node n of a tree other than its *)
(* root, root.Lookup(n.PathString()) is n.                                 *)
(***************************************************************************)
\* The node reached from n along the field names segs[i..]; 0 when a name
\* matches no child.
RECURSIVE Walk(_, _, _, _)
Walk(h, n, segs, i) ==
    IF i > Len(segs) THEN n
    ELSE LET next == {c \in 1..Len(h.nodes) :
                         /\ h.nodes[c].Parent = n
                         /\ \E k \in 1..Len(h.nodes[n].Children) :
                               h.nodes[n].Children[k] = c
                         /\ <<h.nodes[c].Field.Name>> = segs[i]}
         IN IF next = {} THEN 0 ELSE Walk(h, CHOOSE c \in next : TRUE, segs, i + 1)

\* Paths looked up: existing ones, ones that leave the tree at the first,
\* at a middle and at the last segment, the empty path, an empty segment.
LookupPaths ==
    { <<"B">>, <<"B", ".", "C", ".", "D">>, <<"B", ".", "C", ".", "D", ".", "E">>,
      <<"B", ".", "Z", ".", "D">>, <<"B", ".", "C", ".", "Z">>, <<"Z">>,
      <<"P", ".", "W">>, <<"P", ".", "v">>, <<"hidden">>, <<"Host", ".", "Port">>,
      <<"B", ".", ".", "C">>, <<>>, <<"C">> }

\* The segments of a path, by its dots.
RECURSIVE Segments(_)
Segments(path) ==
    IF \E i \in 1..Len(path) : path[i] = "."
    THEN LET i == CHOOSE k \in 1..Len(path) :
                      path[k] = "." /\ \A j \in 1..(k - 1) : path[j] # "."
         IN <<SubSeq(path, 1, i - 1)>> \o Segments(SubSeq(path, i + 1, Len(path)))
    ELSE <<path>>

C11_LookupFindsNodeByPath ==
    \A r \in BareTrees \cup ReturnedTrees :
        /\ \A path \in LookupPaths :
              Lookup(heap, r, path) = Walk(heap, r, Segments(path), 1)
        /\ \A n \in Desc(heap, r) \ {r} :
              Lookup(heap, r, PathString(heap, heap.nodes[n])) = n

(***************************************************************************)
(* C14.  When a directive fails at a node at depth d >= 1, the error the   *)
(* root Resolve returns is a chain of exactly d ResolveErrors followed by  *)
(* one DirectiveExecutionError: the k-th ResolveError names the ancestor   *)
(* (or the node itself, for k = d) at depth k, the DirectiveExecutionError *)
(* carries the failing directive and wraps the original cause, and the     *)
(* field names of the nodes named spell the dotted path of the failing     *)
(* node.                                                                   *)
(***************************************************************************)
\* The chain of nodes from the child of `root` down to n.
RECURSIVE Lineage(_, _, _)
Lineage(h, root, n) ==
    IF n = root \/ n = 0 THEN <<>>
    ELSE Append(Lineage(h, root, h.nodes[n].Parent), n)

\* The node at which the last Resolve failed: the last one it entered.
FailingNode ==
    LET enters == {k \in LogPos : res.log[k].ev = "enter"}
    IN res.log[CHOOSE k \in enters : \A j \in enters : j <= k].node

C14_ErrorChainNamesFailingPath ==
    (res.tree # 0 /\ res.err # Nil) =>
        LET n == FailingNode
            line == Lineage(heap, res.tree, n)
            d == Len(line)
            ds == DirectivesOf(heap, n)
            ex == EventsOf("exec", n)
            m == Len(ex)
            missing == m = 0 \/ ex[m].err = Nil
            failed == IF missing THEN ds[m + 1] ELSE ds[m]
            cause == IF missing THEN ErrMissingExecutor ELSE ex[m].err
        IN /\ d >= 1
           /\ Len(res.err) = d + 1 + Len(cause)
           /\ \A k \in 1..d :
                 /\ res.err[k].Kind = "ResolveError"
                 /\ res.err[k].Node = line[k]
                 /\ heap.nodes[line[k]].Path.len = k
           /\ res.err[d + 1].Kind = "DirectiveExecutionError"
           /\ res.err[d + 1].Directive = failed
           /\ SubSeq(res.err, d + 2, Len(res.err)) = cause
           /\ cause # Nil
           /\ Tabulate(d, LAMBDA k : heap.nodes[res.err[k].Node].Field.Name)
                 = Tabulate(d, LAMBDA k : heap.nodes[line[k]].Field.Name)

\* Deep resolved with a failing `b`: the error of E, at depth 4, is four
\* ResolveErrors naming B, C, D and E around the DirectiveExecutionError
\* of `b`.
C14_Witness ==
    /\ res.tree # 0
    /\ Len(res.err) = 6
    /\ Tabulate(4, LAMBDA k : heap.nodes[res.err[k].Node].Field.Name)
          = <<"B", "C", "D", "E">>
    /\ res.err[5].Directive.Name = "b"
    /\ res.err[6].Kind = "executor failure"

(***************************************************************************)
(* C17.  As claimed: when Resolve succeeds, in the value of every node     *)
(* with children the field at position child.Index holds the value         *)
(* resolving that child produces, for every child; the fields without a    *)
(* child node hold their zero value; the value of a pointer node with      *)
(* children is a freshly allocated record with the children assembled in   *)
(* it, and that of a childless pointer node is as its directives left it.  *)
(***************************************************************************)
\* The value of node n inside the value the last Resolve returned.
RECURSIVE ValAt(_)
ValAt(n) ==
    IF n = res.tree THEN res.val
    ELSE ValAt(heap.nodes[n].Parent).f[heap.nodes[n].Index + 1]

\* The positions of the fields of node n that have no child node.
Childless(n) ==
    {o \in 1..Len(TypeDef(Underlying(heap.nodes[n].Type)).Fields) :
        \A i \in 1..Len(heap.nodes[n].Children) :
            heap.nodes[heap.nodes[n].Children[i]].Index + 1 # o}

\* What the directives of node n alone leave in its value.
AfterDirectives(n) ==
    runDirectives(heap, n, Zero(heap.nodes[n].Type), <<>>, 1).val

\* The parts of the claim that do not concern the fields without a node.
AssembledByIndex ==
    \A n \in Desc(heap, res.tree) :
        LET node == heap.nodes[n]
            isPtr == TypeDef(node.Type).Kind = "ptr"
        IN IF Len(node.Children) > 0
           THEN /\ \A i \in 1..Len(node.Children) :
                      ValAt(n).f[heap.nodes[node.Children[i]].Index + 1]
                          = resolve(heap, node.Children[i], <<>>).val
                /\ Len(ValAt(n).f) = Len(TypeDef(Underlying(node.Type)).Fields)
                /\ isPtr => (ValAt(n).alloc /\ ValAt(n).w = "")
           ELSE ValAt(n) = AfterDirectives(n)

C20_DirectivesBeforeDescendants ==
    /\ \A i, j \in LogPos :
          ( /\ res.log[i].ev = "exec" /\ res.log[j].ev = "exec"
            /\ res.log[j].node \in Desc(heap, res.log[i].node) \ {res.log[i].node} )
              => i < j
    /\ \A k \in LogPos :
          res.log[k].ev = "enter" =>
              \A i \in LogPos :
                  (res.log[i].ev = "exec"
                      /\ res.log[i].node = heap.nodes[res.log[k].node].Parent) => i < k
    /\ (res.tree # 0 /\ res.err = Nil) =>
          \A n \in Desc(heap, res.tree) :
              Len(heap.nodes[n].Children) > 0 =>
                  /\ \A i \in 1..Len(heap.nodes[n].Children) :
                        LET c == heap.nodes[n].Children[i]
                        IN ValAt(c) = resolve(heap, c, <<>>).val
                  /\ TypeDef(heap.nodes[n].Type).Kind = "ptr" => ValAt(n).w = ""

\* Deep resolved without an error: the directive of C wrote the field of
\* its child D and the directive of D wrote its pointer, and neither
\* writing is in the result.
C20_Witness ==
    /\ res.tree # 0
    /\ res.err = Nil
    /\ heap.nodes[res.tree].Type = "Deep"
    /\ \E c \in Desc(heap, res.tree) :
          /\ heap.nodes[c].Field.Name = "C"
          /\ AfterDirectives(c).f[1].w = "a"
          /\ ValAt(c).f[1].w = ""
          /\ AfterDirectives(heap.nodes[c].Children[1]).w = "default"
          /\ ValAt(heap.nodes[c].Children[1]).w = ""
          /\ EventsOf("exec", c) # <<>>

(***************************************************************************)
(* C12.  New applies the options by visiting the nodes of the clone in     *)
(* depth-first pre-order and applying, at each node, every option in list  *)
(* order before it moves to the next node; an option sees the node as the  *)
(* option before it left it; the first option that returns an error ends   *)
(* the pass, and New returns that error and no tree.                       *)
(***************************************************************************)
\* The nodes of the subtree of r in depth-first pre-order.
RECURSIVE PreOrder(_, _)
RECURSIVE PreOrderOfAll(_, _, _)
PreOrderOfAll(h, kids, i) ==
    IF i > Len(kids) THEN <<>>
    ELSE PreOrder(h, kids[i]) \o PreOrderOfAll(h, kids, i + 1)

PreOrder(h, r) == <<r>> \o PreOrderOfAll(h, h.nodes[r].Children, 1)

IsApply(e) == e.ev = "apply"

C12_Step ==
    \A p \in Procs :
        (calls[p].pc = "copy" /\ calls'[p].pc = "done") =>
            LET c == copy(heap, calls[p].bare)
                opts == normalizeOptions(calls'[p].opts)
                n == Len(opts)
                o == IterateFn(c.h, c.id, opts)
                applies == SelectSeq(o.log, IsApply)
                order == PreOrder(c.h, c.id)
                last == Len(applies)
                failed == last > 0 /\ applies[last].err # Nil
            IN /\ \A k \in 1..last :
                     /\ applies[k].node = order[((k - 1) \div n) + 1]
                     /\ applies[k].opt = ((k - 1) % n) + 1
                     /\ applies[k].seen =
                            IF applies[k].opt = 1 THEN Background
                            ELSE applies[k - 1].left
                     /\ opts[applies[k].opt].op = "WithNamespace" =>
                            CtxValue(applies[k].left, ckNamespace)
                                = opts[applies[k].opt].arg
                     /\ k < last => applies[k].err = Nil
               /\ failed => /\ calls'[p].err = applies[last].err
                            /\ calls'[p].tree = 0
               /\ ~failed => /\ last = n * Len(order)
                             /\ calls'[p].err \in {Nil, ErrNilNamespace}
               /\ calls'[p].tree # 0 =>
                     \A m \in Desc(heap', calls'[p].tree) :
                         Namespace(heap'.nodes[m]) = BoundNamespace(opts)

C12_OptionsInOrder == [][C12_Step]_vars

\* New for Plain with a namespace option, an option that fails at the
\* third node and another namespace option after it has returned the
\* error of the failing option and no tree.
C12_Witness ==
    \E p \in Procs :
        /\ calls[p].pc = "done"
        /\ calls[p].typ = "Plain"
        /\ calls[p].opts = <<WithNamespace("nsA"), FailingOption, WithNamespace("nsB")>>
        /\ calls[p].err = PlainErr("option failed")
        /\ calls[p].tree = 0

(***************************************************************************)
(* C13.  In sequential use the bare tree of a type is built at most once:  *)
(* a build happens only while nothing is stored for the type, and a New    *)
(* that finds an entry works from the stored tree; an entry is never       *)
(* removed or replaced; no New, option or Resolve changes anything of the  *)
(* stored tree, and no caller is ever handed a node of it.                 *)
(***************************************************************************)
\* Everything of the tree rooted at r: its nodes with all their fields,
\* their paths and their directives.
Frozen(h, r) ==
    [n \in Desc(h, r) |->
        [node |-> h.nodes[n], path |-> Strs(h, h.nodes[n].Path),
         dirs |-> DirectivesOf(h, n)]]

C13_Inv ==
    \A p \in Procs :
        /\ calls[p].pc \in {"build", "store"} => builtTrees[calls[p].typ] = 0
        /\ (calls[p].pc \in {"copy", "done"} /\ calls[p].bare # 0) =>
              calls[p].bare = builtTrees[calls[p].typ]
        /\ (calls[p].pc = "done" /\ calls[p].tree # 0) =>
              \A t \in StructTypes :
                  builtTrees[t] # 0 =>
                      Desc(heap, calls[p].tree) \cap Desc(heap, builtTrees[t]) = {}

C13_Step ==
    \A t \in StructTypes :
        builtTrees[t] # 0 =>
            /\ builtTrees'[t] = builtTrees[t]
            /\ Frozen(heap', builtTrees[t]) = Frozen(heap, builtTrees[t])

IsCall(e) == e.ev = "call"

IsBack(e) == e.ev = "back"

\* Whether res is the outcome of an Iterate.
Iterated == res.tree # 0 /\ res.log # <<>> /\ res.log[1].ev = "call"

C16_IterateInPreOrder ==
    Iterated =>
        LET callsOf == SelectSeq(res.log, IsCall)
            backs == SelectSeq(res.log, IsBack)
            order == PreOrder(heap, res.tree)
            last == Len(callsOf)
        IN /\ last <= Len(order)
           /\ Len(backs) = last
           /\ \A k \in 1..last :
                 /\ callsOf[k].node = order[k]
                 /\ backs[k].node = order[k]
                 /\ k < last => backs[k].err = Nil
           /\ \A k, j \in 1..last : callsOf[k].node = callsOf[j].node => k = j
           /\ Cardinality(Desc(heap, res.tree)) = Len(order)
           /\ res.err = backs[last].err
           /\ res.err = Nil => last = Len(order)

\* Iterate on the root of a tree of Plain with a visitor that fails at P:
\* it was called on the root, X and P, not on U, W and Q, and Iterate
\* returned its error.
C16_Witness ==
    /\ Iterated
    /\ heap.nodes[res.tree].Type = "Plain"
    /\ Len(PreOrder(heap, res.tree)) = 6
    /\ Len(SelectSeq(res.log, IsCall)) = 3
    /\ heap.nodes[SelectSeq(res.log, IsCall)[3].node].Field.Name = "P"
    /\ res.err = PlainErr("option failed")

(***************************************************************************)
(* C18.  The builder gives a node children only when its type is a record  *)
(* or exactly one level of pointer to a record: a node whose type is a     *)
(* sequence, a mapping, a pointer to a pointer to a record or not a record *)
(* at all is a leaf, whatever records lie beneath its type.                *)
(***************************************************************************)
Expandable(t) ==
    \/ TypeDef(t).Kind = "struct"
    \/ TypeDef(t).Kind = "ptr" /\ TypeDef(TypeDef(t).Elem).Kind = "struct"

C18_OnlyRecordsExpanded ==
    \A r \in BareTrees \cup ReturnedTrees :
        \A n \in Desc(heap, r) :
            /\ ~Expandable(heap.nodes[n].Type) =>
                  /\ IsLeaf(heap.nodes[n])
                  /\ Desc(heap, n) = {n}
            /\ ~IsLeaf(heap.nodes[n]) => Expandable(heap.nodes[n].Type)

\* The stored tree of Shapes: S (a sequence of records), M (a mapping to
\* records) and PP (a pointer to a pointer to a record) are leaves, P (a
\* pointer to a record) has the two visible fields of the record as
\* children.
C18_Witness ==
    /\ builtTrees["Shapes"] # 0
    /\ LET kids == heap.nodes[builtTrees["Shapes"]].Children
       IN /\ Len(kids) = 5
          /\ heap.nodes[kids[1]].Type = "[]Inner" /\ IsLeaf(heap.nodes[kids[1]])
          /\ heap.nodes[kids[2]].Type = "map[string]Inner" /\ IsLeaf(heap.nodes[kids[2]])
          /\ heap.nodes[kids[3]].Type = "**Inner" /\ IsLeaf(heap.nodes[kids[3]])
          /\ heap.nodes[kids[4]].Type = "*Inner" /\ Len(heap.nodes[kids[4]].Children) = 2

(***************************************************************************)
(* C19.  As claimed: the build terminates for every record type New        *)
(* accepts, a record type that refers to itself through a pointer field    *)
(* (directly or through other records) included: New returns, with a tree  *)
(* or with an error.                                                       *)
(***************************************************************************)
C19_BuildTerminates ==
    \A p \in Procs :
        /\ calls[p].pc # "crashed"
        /\ ~IsFatal(calls[p].err)

(***************************************************************************)
(* C15.  Resolve never writes to the resolver tree: whatever Resolve calls *)
(* are in flight, on one tree or on several, no step of them changes a     *)
(* field of a node (Type, Index, Path, Directives, Parent, Children,       *)
(* Context), a path or a directive; every resolve call in flight has a     *)
(* value of its own; and what a call returns (value, error, and what it    *)
(* did in which order) is what it returns when it runs alone.              *)
(***************************************************************************)
\* The addresses of the values of the resolve calls in flight, one entry
\* per frame that has made its value.
FramesInFlight ==
    {<<p, k>> \in Procs \X (1..MaxStackDepth) :
        k <= Len(runs[p].stack) /\ runs[p].stack[k].addr # NoAddr}

C15_Inv ==
    /\ \A x, y \in FramesInFlight :
          runs[x[1]].stack[x[2]].addr = runs[y[1]].stack[y[2]].addr => x = y
    /\ \A x \in FramesInFlight : vmem[runs[x[1]].stack[x[2]].addr] # FreeCell
    /\ \A p \in Procs :
          runs[p].pc = "finished" =>
              LET alone == resolve(heap, runs[p].tree, <<>>)
              IN /\ runs[p].val = alone.val
                 /\ runs[p].err = alone.err
                 /\ runs[p].log = alone.log

C15_Step ==
    runs' # runs =>
        /\ heap' = heap
        /\ \A r \in BareTrees \cup ReturnedTrees : Frozen(heap', r) = Frozen(heap, r)

C15_ResolveReadsOnly == [](C15_Inv) /\ [][C15_Step]_vars

\* Two Resolve calls in flight on the same tree of Deep, each three calls
\* of resolve deep, while a third value of the first is already written.
C15_Witness ==
    /\ runs["p1"].pc = "running" /\ runs["p2"].pc = "running"
    /\ runs["p1"].tree = runs["p2"].tree
    /\ heap.nodes[runs["p1"].tree].Type = "Deep"
    /\ Len(runs["p1"].stack) >= 3
    /\ Len(runs["p2"].stack) >= 3
    /\ runs["p1"].stack[3].addr # NoAddr
    /\ vmem[runs["p1"].stack[3].addr].w = "a"

====
